---- MODULE Spec2Model ----
(***************************************************************************)
(* A model of src/src/lib.rs: HOTPSecret (RFC 4226) and TOTP (RFC 6238).   *)
(*                                                                         *)
(* Representation.  TLC's integers are 32-bit signed, so a u64 (and the    *)
(* u32 operand of the modulus) is a little-endian sequence of octets       *)
(* (base 256 digits, least significant first): 8 octets for a u64, 4 for a *)
(* u32.  A byte buffer ([u8], Vec<u8>) is a sequence of integers 0..255 in *)
(* memory order.  Option<T> is <<>> (None) or <<x>> (Some(x)).  A call     *)
(* returns an outcome record: kind "ok" with a value, or kind "panic" with *)
(* the place that panicked.                                                *)
(*                                                                         *)
(* Integer overflow in Rust is decided by the build: with overflow checks  *)
(* (the dev and test profiles) it panics, without them (release) it wraps. *)
(* The variable overflow_checks is the build's choice, fixed at Init.      *)
(***************************************************************************)
EXTENDS Integers, Sequences, FiniteSets

VARIABLES
    overflow_checks,  \* the build: TRUE = arithmetic overflow panics, FALSE = it wraps
    oracle,           \* which keyed-hash function the HMAC capability is (fixed per run)
    secret,           \* Option<HOTPSecret> held by the caller
    totp,             \* Option<TOTP> held by the caller
    op,               \* the call in progress ("idle": none)
    arg,              \* its arguments
    res               \* its outcome

vars == <<overflow_checks, oracle, secret, totp, op, arg, res>>

-----------------------------------------------------------------------------
(* Bounds of the model *)

MaxDigits == 12   \* digits ranges over 1..MaxDigits
MaxSeed == 1      \* the random source is one of the streams 0..MaxSeed
MaxOracle == 1    \* the keyed hash is one of the functions 0..MaxOracle
MaxFill == 1      \* digest fill patterns 0..MaxFill for get_hotp_value
MaxSkew == 1      \* TOTP offsets range over -MaxSkew..MaxSkew (and the i32 extremes)

-----------------------------------------------------------------------------
(* Outcomes *)

Ok(v) == [kind |-> "ok", value |-> v, at |-> "-"]
Panic(where, none) == [kind |-> "panic", value |-> none, at |-> where]

None == <<>>
Some(x) == <<x>>

\* Statement order: x is computed, then e.  (TLC evaluates a definition only when
\* it is used; this computes the value of the earlier statement first.)
Then(x, e) == IF x = x THEN e ELSE e

-----------------------------------------------------------------------------
(* Machine arithmetic on octet sequences *)

Digit(a, i) == IF i <= Len(a) THEN a[i] ELSE 0

Zeros(n) == [i \in 1..n |-> 0]

\* The n low octets of a (zero-extended): a mod 256^n.
Trunc(a, n) == [i \in 1..n |-> Digit(a, i)]

IsZero(a) == \A i \in 1..Len(a) : a[i] = 0

NatEq(a, b) ==
    LET n == IF Len(a) > Len(b) THEN Len(a) ELSE Len(b)
    IN \A i \in 1..n : Digit(a, i) = Digit(b, i)

RECURSIVE LessFrom(_, _, _)
LessFrom(a, b, i) ==
    IF i = 0 THEN FALSE
    ELSE IF Digit(a, i) # Digit(b, i) THEN Digit(a, i) < Digit(b, i)
    ELSE LessFrom(a, b, i - 1)

NatLess(a, b) == LessFrom(a, b, IF Len(a) > Len(b) THEN Len(a) ELSE Len(b))

RECURSIVE AddFrom(_, _, _, _, _)
AddFrom(a, b, i, n, c) ==
    IF i > n THEN <<c>>
    ELSE LET s == Digit(a, i) + Digit(b, i) + c
         IN <<s % 256>> \o AddFrom(a, b, i + 1, n, s \div 256)

\* The exact sum of two n-octet numbers, n+1 octets (the last is the carry).
NatAdd(a, b, n) == AddFrom(a, b, 1, n, 0)

RECURSIVE SubFrom(_, _, _, _, _)
SubFrom(a, b, i, n, c) ==
    IF i > n THEN <<>>
    ELSE LET s == Digit(a, i) - Digit(b, i) - c
         IN <<s % 256>> \o SubFrom(a, b, i + 1, n, IF s < 0 THEN 1 ELSE 0)

\* a - b on n octets, modulo 256^n.
NatSub(a, b, n) == SubFrom(a, b, 1, n, 0)

RECURSIVE MulDigitFrom(_, _, _, _)
\* a * d from octet i with carry c, for a multiplier 0 <= d < 2^22
MulDigitFrom(a, d, i, c) ==
    IF i > Len(a) THEN <<c % 256, c \div 256>>
    ELSE LET s == a[i] * d + c
         IN <<s % 256>> \o MulDigitFrom(a, d, i + 1, s \div 256)

RECURSIVE MulFrom(_, _, _, _, _)
\* acc + a * b[j..] * 256^(j-1) on n octets
MulFrom(a, b, j, n, acc) ==
    IF j > Len(b) THEN acc
    ELSE LET part == Zeros(j - 1) \o MulDigitFrom(a, b[j], 1, 0)
             next == Trunc(NatAdd(acc, part, n), n)
         IN Then(next, MulFrom(a, b, j + 1, n, next))

\* The exact product, Len(a) + Len(b) octets.
NatMul(a, b) == MulFrom(a, b, 1, Len(a) + Len(b), Zeros(Len(a) + Len(b)))

RECURSIVE ToInt(_)
\* The value of a number known to be below 2^31.
ToInt(a) == IF a = <<>> THEN 0 ELSE Head(a) + 256 * ToInt(Tail(a))

RECURSIVE FromInt(_, _)
\* The n-octet number of a non-negative integer.
FromInt(v, n) == IF n = 0 THEN <<>> ELSE <<v % 256>> \o FromInt(v \div 256, n - 1)

FitsInt(a) == (\A i \in 5..Len(a) : a[i] = 0) /\ Digit(a, 4) < 128

RECURSIVE BitAnd8(_, _)
BitAnd8(a, b) ==
    IF a = 0 \/ b = 0 THEN 0
    ELSE (a % 2) * (b % 2) + 2 * BitAnd8(a \div 2, b \div 2)

RECURSIVE BitOr8(_, _)
BitOr8(a, b) ==
    IF a = 0 THEN b
    ELSE IF b = 0 THEN a
    ELSE (IF a % 2 = 1 \/ b % 2 = 1 THEN 1 ELSE 0) + 2 * BitOr8(a \div 2, b \div 2)

RECURSIVE BitAnd(_, _)
\* a & b and a | b on non-negative integers, octet by octet
BitAnd(a, b) ==
    IF a < 256 \/ b < 256 THEN BitAnd8(a % 256, b % 256)
    ELSE BitAnd8(a % 256, b % 256) + 256 * BitAnd(a \div 256, b \div 256)

RECURSIVE BitOr(_, _)
BitOr(a, b) ==
    IF a < 256 /\ b < 256 THEN BitOr8(a, b)
    ELSE BitOr8(a % 256, b % 256) + 256 * BitOr(a \div 256, b \div 256)

-----------------------------------------------------------------------------
(* HOTPAlgorithm and the external capabilities *)

HOTPAlgorithm == {"HMACSHA1", "HMACSHA256", "HMACSHA512"}

\* &ring::digest::Algorithm: the digest and its output length in bytes.
HOTPSecret_get_algorithm(algorithm) ==
    CASE algorithm = "HMACSHA1" -> [digest |-> "SHA1", output_len |-> 20]
      [] algorithm = "HMACSHA256" -> [digest |-> "SHA256", output_len |-> 32]
      [] algorithm = "HMACSHA512" -> [digest |-> "SHA512", output_len |-> 64]

RECURSIVE FoldRange(_, _, _)
\* A number 0..65520 that depends on every element of s[lo..hi] and its place.
FoldRange(s, lo, hi) ==
    IF lo > hi THEN 7
    ELSE IF lo = hi THEN (s[lo] + 1) * ((lo % 127) + 1)
    ELSE LET mid == (lo + hi) \div 2
         IN (FoldRange(s, lo, mid) * 31 + FoldRange(s, mid + 1, hi)) % 65521

Fold(s) == FoldRange(s, 1, Len(s))

\* ring::hmac::sign: a keyed hash.  The model knows of it only that it is a
\* function of (algorithm, key, message) whose result has the algorithm's
\* output length; which function is the run's oracle.
Hmac(algorithm, key, msg, orc) ==
    LET k == Fold(key)
        m == Fold(msg)
        a == algorithm.output_len
    IN Then(<<k, m>>,
            [i \in 1..algorithm.output_len |->
                ((k % 256) * (2 * i + 1 + orc) + (k \div 256) * (i * i + 1)
                 + (m % 256) * (i + 3) + (m \div 256) * (i * i + i + 1)
                 + (orc + 1) * i * i + a) % 256])

\* rand::OsRng: next_u32 of stream seed at call i, a u32.
next_u32(seed, i) ==
    <<(seed * 97 + i * 41 + 13) % 256, (i * 7 + seed) % 256, (i + 171) % 256, (seed + 205) % 256>>

\* `x as u8` of a u32 or u64.
as_u8(x) == x[1]

-----------------------------------------------------------------------------
(* base32 (RFC 4648 alphabet, no padding); a text is a sequence of characters *)

Alphabet ==
    <<"A", "B", "C", "D", "E", "F", "G", "H", "I", "J", "K", "L", "M", "N", "O", "P",
      "Q", "R", "S", "T", "U", "V", "W", "X", "Y", "Z", "2", "3", "4", "5", "6", "7">>

InAlphabet(c) == \E i \in 1..32 : Alphabet[i] = c

CharValue(c) == (CHOOSE i \in 1..32 : Alphabet[i] = c) - 1

\* One chunk of up to 8 five-bit values (zero-filled) gives 5 bytes.
DecodeChunk(v) ==
    LET b(i) == Digit(v, i + 1)
    IN << (b(0) * 8 + b(1) \div 4) % 256,
          (b(1) * 64 + b(2) * 2 + b(3) \div 16) % 256,
          (b(3) * 16 + b(4) \div 2) % 256,
          (b(4) * 128 + b(5) * 4 + b(6) \div 8) % 256,
          (b(6) * 32 + b(7)) % 256 >>

RECURSIVE DecodeChunks(_)
DecodeChunks(v) ==
    IF v = <<>> THEN <<>>
    ELSE IF Len(v) <= 8 THEN DecodeChunk(v)
    ELSE DecodeChunk(SubSeq(v, 1, 8)) \o DecodeChunks(SubSeq(v, 9, Len(v)))

\* base32::decode(RFC4648 {padding: false}, data): Option<Vec<u8>>.
base32_decode(data) ==
    IF \E i \in 1..Len(data) : ~InAlphabet(data[i]) THEN None
    ELSE LET v == [i \in 1..Len(data) |-> CharValue(data[i])]
             output_length == (Len(data) * 5) \div 8
         IN Some(SubSeq(DecodeChunks(v), 1, output_length))

\* 5 bytes (zero-filled) give 8 characters.
EncodeChunk(d) ==
    LET b(i) == Digit(d, i + 1)
        v == << b(0) \div 8,
                (b(0) % 8) * 4 + b(1) \div 64,
                (b(1) \div 2) % 32,
                (b(1) % 2) * 16 + b(2) \div 16,
                (b(2) % 16) * 2 + b(3) \div 128,
                (b(3) \div 4) % 32,
                (b(3) % 4) * 8 + b(4) \div 32,
                b(4) % 32 >>
    IN [i \in 1..8 |-> Alphabet[v[i] + 1]]

RECURSIVE EncodeChunks(_)
EncodeChunks(d) ==
    IF d = <<>> THEN <<>>
    ELSE IF Len(d) <= 5 THEN EncodeChunk(d)
    ELSE EncodeChunk(SubSeq(d, 1, 5)) \o EncodeChunks(SubSeq(d, 6, Len(d)))

\* base32::encode(RFC4648 {padding: false}, data): String.
base32_encode(data) ==
    SubSeq(EncodeChunks(data), 1, (Len(data) * 8 + 4) \div 5)

-----------------------------------------------------------------------------
(* HOTPSecret *)

\* for _ in 0..size { secret.push(rng.next_u32() as u8) }: iteration i (from 0)
\* pushes element i of the vector
generate_loop(size, seed) ==
    [i \in 1..size |-> as_u8(next_u32(seed, i - 1))]

\* A variant of generate_secret whose loop stops one byte short.
generate_secret_one_short(size, rng) ==
    IF rng = None THEN Panic("OsRng::new().unwrap()", <<>>)
    ELSE Ok(generate_loop(size - 1, rng[1]))

\* rng: what rand::OsRng::new() returned, None (an error) or Some(stream).
HOTPSecret_generate_secret(size, rng) ==
    IF rng = None THEN Panic("OsRng::new().unwrap()", <<>>)
    ELSE Ok(generate_loop(size, rng[1]))

HOTPSecret_new_htop(algorithm, rng) ==
    LET algo == HOTPSecret_get_algorithm(algorithm)
        bytes == HOTPSecret_generate_secret(algo.output_len, rng)
    IN IF bytes.kind = "panic" THEN bytes
       ELSE Ok([secret |-> bytes.value, algorithm |-> algorithm])

\* Option::unwrap() panics on None: from_base32 has no error return.
HOTPSecret_from_base32(data, algorithm) ==
    LET decoded == base32_decode(data)
    IN IF decoded = None THEN Panic("base32::decode(..).unwrap()", <<>>)
       ELSE Ok([secret |-> decoded[1], algorithm |-> algorithm])

HOTPSecret_from_bin(data, algorithm) ==
    Ok([secret |-> data, algorithm |-> algorithm])

HOTPSecret_get_secret_base32(self) == Ok(base32_encode(self.secret))

\* x << k on a u32 whose value stays below 2^31 (bits shifted out are lost).
Shl32(x, k) == (x % (2 ^ (32 - k))) * (2 ^ k)

\* data[k], Rust's 0-based index
At(data, k) == data[k + 1]

\* A variant of get_hotp_value that masks the offset with 0x1f.
get_hotp_value_mask_1f(data) ==
    LET offset == BitAnd(At(data, Len(data) - 1), 31)
    IN IF offset + 3 > Len(data) - 1 THEN Panic("index out of bounds", -1)
       ELSE Ok(BitOr(BitOr(BitOr(Shl32(BitAnd(At(data, offset), 127), 24),
                                 Shl32(BitAnd(At(data, offset + 1), 255), 16)),
                           Shl32(BitAnd(At(data, offset + 2), 255), 8)),
                     BitAnd(At(data, offset + 3), 255)))

\* The value is below 2^31 because of the 0x7f mask, so it is a TLC integer.
HOTPSecret_get_hotp_value(data) ==
    LET offset == BitAnd(At(data, Len(data) - 1), 15)
    IN IF offset + 3 > Len(data) - 1 THEN Panic("index out of bounds", -1)
       ELSE Ok(BitOr(BitOr(BitOr(Shl32(BitAnd(At(data, offset), 127), 24),
                                 Shl32(BitAnd(At(data, offset + 1), 255), 16)),
                           Shl32(BitAnd(At(data, offset + 2), 255), 8)),
                     BitAnd(At(data, offset + 3), 255)))

\* a * b on u32: the wrapped product and whether it overflowed.
u32_mul(a, b) ==
    LET p == NatMul(a, b)
    IN Then(p, [value |-> SubSeq(p, 1, 4), overflow |-> \E i \in 5..8 : p[i] # 0])

RECURSIVE pow_loop(_, _, _, _)
\* core's u32::pow: square and multiply, the last squaring left out.
pow_loop(base, acc, exp, ovf) ==
    IF exp > 1 THEN
        LET m1 == IF exp % 2 = 1 THEN u32_mul(acc, base)
                  ELSE [value |-> acc, overflow |-> FALSE]
            m2 == u32_mul(base, base)
        IN Then(<<m1, m2>>,
                pow_loop(m2.value, m1.value, exp \div 2, ovf \/ m1.overflow \/ m2.overflow))
    ELSE IF exp = 1 THEN
        LET m == u32_mul(acc, base)
        IN [value |-> m.value, overflow |-> ovf \/ m.overflow]
    ELSE [value |-> acc, overflow |-> ovf]

\* 10u32.pow(digits): a u32 (4 octets), or the overflow panic of a checked build.
u32_pow10(digits, checks) ==
    LET p == pow_loop(FromInt(10, 4), FromInt(1, 4), digits, FALSE)
    IN IF p.overflow /\ checks THEN Panic("attempt to multiply with overflow", <<>>)
       ELSE Ok(p.value)

\* num % m for num below 2^31: m at or above 2^31 leaves num as it is.
u32_rem(num, m) ==
    IF IsZero(m) THEN Panic("remainder with a divisor of zero", -1)
    ELSE IF FitsInt(m) THEN Ok(num % ToInt(m))
    ELSE Ok(num)

\* A variant of get_otp that reduces by 10^(digits + 1).
get_otp_one_digit_more(self, counter, digits, checks, orc) ==
    LET algorithm == HOTPSecret_get_algorithm(self.algorithm)
        block == Hmac(algorithm, self.secret, counter, orc)
        num == HOTPSecret_get_hotp_value(block)
        modulus == u32_pow10(digits + 1, checks)
    IN Then(block,
            IF num.kind = "panic" THEN num
            ELSE IF modulus.kind = "panic" THEN Panic(modulus.at, -1)
            ELSE u32_rem(num.value, modulus.value))

HOTPSecret_get_otp(self, counter, digits, checks, orc) ==
    LET algorithm == HOTPSecret_get_algorithm(self.algorithm)
        block == Hmac(algorithm, self.secret, counter, orc)
        num == HOTPSecret_get_hotp_value(block)
        modulus == u32_pow10(digits, checks)
    IN Then(block,
            IF num.kind = "panic" THEN num
            ELSE IF modulus.kind = "panic" THEN Panic(modulus.at, -1)
            ELSE u32_rem(num.value, modulus.value))

-----------------------------------------------------------------------------
(* u64 machine operations *)

U64(v) == FromInt(v, 8)

\* x << k and x >> k on a u64, 0 <= k < 64
Shl64(x, k) ==
    LET q == k \div 8
        r == k % 8
        d(i) == IF i >= 1 THEN x[i] ELSE 0
    IN [i \in 1..8 |-> ((d(i - q) * (2 ^ r)) % 256) + ((d(i - q - 1) * (2 ^ r)) \div 256)]

Shr64(x, k) ==
    LET q == k \div 8
        r == k % 8
    IN [i \in 1..8 |-> (Digit(x, i + q) \div (2 ^ r)) + ((Digit(x, i + q + 1) * (2 ^ (8 - r))) % 256)]

And64(x, y) == [i \in 1..8 |-> BitAnd8(x[i], y[i])]

RECURSIVE ShortDivFrom(_, _, _, _)
\* n / dv for a divisor below 2^23, octet by octet from the most significant
ShortDivFrom(n, dv, i, rem) ==
    IF i = 0 THEN <<>>
    ELSE LET cur == rem * 256 + n[i]
         IN ShortDivFrom(n, dv, i - 1, cur % dv) \o <<cur \div dv>>

\* n / d on u64, d # 0: the machine's unsigned division.  The model divides by
\* short division, which needs rem * 256 + 255 to be a TLC integer: it covers
\* the divisors below 2^23, and TimeSteps stays below that.
u64_div(n, d) == ShortDivFrom(n, ToInt(d), 8, 0)

\* `offset as i64` of an i32: sign extension, as the 8 octets of the two's complement
i32_as_i64(offset) ==
    << offset % 256, (offset \div 256) % 256, (offset \div 65536) % 256,
       (offset \div 16777216) % 256 >>
    \o (IF offset < 0 THEN <<255, 255, 255, 255>> ELSE <<0, 0, 0, 0>>)

Negative64(x) == x[8] >= 128

\* a + b on i64 (`x as i64` and `x as u64` keep the 8 octets): the wrapped sum,
\* or the overflow panic of a checked build
i64_add(a, b, checks) ==
    LET sum == Trunc(NatAdd(a, b, 8), 8)
        overflow == Negative64(a) = Negative64(b) /\ Negative64(sum) # Negative64(a)
    IN IF overflow /\ checks THEN Panic("attempt to add with overflow", <<>>)
       ELSE Ok(sum)

-----------------------------------------------------------------------------
(* TOTP *)

\* A variant of new_totp without the assertion.
new_totp_unchecked(s, time_step, start_time) ==
    Ok([secret |-> s, time_step |-> time_step, start_time |-> start_time])

TOTP_new_totp(s, time_step, start_time) ==
    IF IsZero(time_step) THEN Panic("assertion failed: time_step > 0", <<>>)
    ELSE Ok([secret |-> s, time_step |-> time_step, start_time |-> start_time])

TOTP_get_byte_at(num, idx) ==
    LET bits_offset == idx * 8
        byte_mask == Shl64(U64(255), bits_offset)
    IN as_u8(Shr64(And64(num, byte_mask), bits_offset))

\* A variant of num_to_buffer that writes the least significant byte first.
num_to_buffer_little_endian(num) ==
    << TOTP_get_byte_at(num, 0), TOTP_get_byte_at(num, 1),
       TOTP_get_byte_at(num, 2), TOTP_get_byte_at(num, 3),
       TOTP_get_byte_at(num, 4), TOTP_get_byte_at(num, 5),
       TOTP_get_byte_at(num, 6), TOTP_get_byte_at(num, 7) >>

TOTP_num_to_buffer(num) ==
    << TOTP_get_byte_at(num, 7), TOTP_get_byte_at(num, 6),
       TOTP_get_byte_at(num, 5), TOTP_get_byte_at(num, 4),
       TOTP_get_byte_at(num, 3), TOTP_get_byte_at(num, 2),
       TOTP_get_byte_at(num, 1), TOTP_get_byte_at(num, 0) >>

\* now: what SystemTime::now().duration_since(UNIX_EPOCH) returned, None (a clock
\* before the epoch) or Some(as_secs)
TOTP_get_time(self, now, checks) ==
    IF now = None THEN Panic("duration_since(UNIX_EPOCH).unwrap()", <<>>)
    ELSE LET sum == NatAdd(now[1], self.start_time, 8)
         IN IF sum[9] # 0 /\ checks THEN Panic("attempt to add with overflow", <<>>)
            ELSE IF IsZero(self.time_step) THEN Panic("attempt to divide by zero", <<>>)
            ELSE Ok(u64_div(Trunc(sum, 8), self.time_step))

\* A variant of the counter that clamps a negative sum to zero.
counter_clamped(time, offset, checks) ==
    LET sum == i64_add(time, i32_as_i64(offset), checks)
    IN IF sum.kind = "ok" /\ ~Negative64(time) /\ offset < 0 /\ Negative64(sum.value)
       THEN Ok(Zeros(8))
       ELSE sum

\* ((self.get_time() as i64) + (offset as i64)) as u64
TOTP_counter(time, offset, checks) == i64_add(time, i32_as_i64(offset), checks)

\* The outcome, with where a panic came from ("in"), the step index get_time
\* returned and the counter buffer handed to HOTPSecret::get_otp.
TOTP_get_otp(self, now, digits, offset, checks, orc) ==
    LET time == TOTP_get_time(self, now, checks)
        counter == TOTP_counter(time.value, offset, checks)
        buf == TOTP_num_to_buffer(counter.value)
        otp == HOTPSecret_get_otp(self.secret, buf, digits, checks, orc)
    IN IF time.kind = "panic"
       THEN [kind |-> "panic", value |-> -1, at |-> time.at, in |-> "get_time",
             time |-> None, buf |-> None]
       ELSE IF counter.kind = "panic"
       THEN [kind |-> "panic", value |-> -1, at |-> counter.at, in |-> "counter",
             time |-> Some(time.value), buf |-> None]
       ELSE Then(buf,
                 [kind |-> otp.kind, value |-> otp.value, at |-> otp.at,
                  in |-> IF otp.kind = "panic" THEN "HOTPSecret::get_otp" ELSE "-",
                  time |-> Some(time.value), buf |-> Some(buf)])

-----------------------------------------------------------------------------
(* The callers' inputs *)

Digits == 1..MaxDigits

\* The RFC 4226/6238 test keys: the ASCII digits "1234567890" repeated, n bytes.
RfcKey(n) == [i \in 1..n |-> 48 + (i % 10)]

BinKeys == {<<>>, RfcKey(20), RfcKey(64)}

\* "MB3ERD5FN7N4EKRZMSC5U3LAWBMPOFQB"
TextGenerateOtp ==
    <<"M", "B", "3", "E", "R", "D", "5", "F", "N", "7", "N", "4", "E", "K", "R", "Z",
      "M", "S", "C", "5", "U", "3", "L", "A", "W", "B", "M", "P", "O", "F", "Q", "B">>

ValidTexts == {<<>>, <<"M", "Z", "X", "W", "6">>, TextGenerateOtp}

\* Texts with a character outside the alphabet ('1', '8', '0', '!').
InvalidTexts ==
    {<<"M", "B", "1">>, <<"8">>, <<"M", "Z", "X", "W", "6", "!">>,
     [i \in 1..32 |-> IF i = 32 THEN "0" ELSE TextGenerateOtp[i]]}

Texts == ValidTexts \cup InvalidTexts

\* The counters of test_secret, and the all-ones counter.
CounterBuffers ==
    {<<0, 0, 0, 0, 0, 0, 0, 1>>, <<0, 0, 0, 0, 2, 53, 35, 236>>,
     <<0, 0, 0, 0, 2, 53, 35, 237>>, <<0, 0, 0, 0, 2, 115, 239, 7>>,
     <<0, 0, 0, 0, 3, 249, 64, 170>>, <<0, 0, 0, 0, 39, 188, 134, 170>>,
     <<255, 255, 255, 255, 255, 255, 255, 255>>}

\* OsRng::new(): an error, or one of the streams.
RngResults == {None} \cup {Some(seed) : seed \in 0..MaxSeed}

\* The digest of test_dynamic_trunc.
TestDigest ==
    <<31, 134, 152, 105, 14, 2, 202, 22, 97, 133, 80, 239, 127, 25, 218, 142, 148, 91, 85, 90>>

\* A digest of len bytes ending in the byte last, filled by pattern fill.
MkDigest(len, last, fill) ==
    [i \in 1..len |-> IF i = len THEN last ELSE (255 - 3 * i + fill * (i * i + 77)) % 256]

LastBytes == {16 * h + l : h \in {0, 9, 15}, l \in 0..15}

Digests ==
    {TestDigest} \cup
    {MkDigest(HOTPSecret_get_algorithm(a).output_len, last, fill) :
        a \in HOTPAlgorithm, last \in LastBytes, fill \in 0..MaxFill}

\* 20000000000, 2^32, 2^63 - 60, 2^63 - 1, 2^63, 2^64 - 60 and 2^64 - 1 as u64
N20000000000 == <<0, 200, 23, 168, 4, 0, 0, 0>>
TwoTo32 == <<0, 0, 0, 0, 1, 0, 0, 0>>
I64MaxLess59 == <<196, 255, 255, 255, 255, 255, 255, 127>>
I64Max == <<255, 255, 255, 255, 255, 255, 255, 127>>
TwoTo63 == <<0, 0, 0, 0, 0, 0, 0, 128>>
U64MaxLess59 == <<196, 255, 255, 255, 255, 255, 255, 255>>
U64Max == <<255, 255, 255, 255, 255, 255, 255, 255>>

\* The epoch seconds of test_time_to_counter.
TestSeconds ==
    {U64(59), U64(1111111109), U64(1111111111), U64(1234567890), U64(2000000000),
     N20000000000}

Nows == {None} \cup {Some(t) : t \in TestSeconds}

TimeSteps == {U64(0), U64(1), U64(30), U64(60)}

StartTimes == {U64(0), I64MaxLess59, U64MaxLess59, U64Max}

I32Min == -2147483647 - 1
I32Max == 2147483647

Offsets == (-MaxSkew..MaxSkew) \cup {I32Min, I32Max}

TotpDigits == {6, 8, MaxDigits}

Nums ==
    TestSeconds \cup {U64(0), U64(1), U64(37037036), U64(666666666), TwoTo32, I64Max,
                      TwoTo63, U64Max, <<33, 67, 101, 135, 169, 203, 237, 15>>}

-----------------------------------------------------------------------------
(* The calls.  A call is made when none is in progress; Return hands its    *)
(* outcome to the caller.                                                   *)

Idle == op = "idle"

Call(name, a, r) == op' = name /\ arg' = a /\ res' = r

Call_new_htop ==
    /\ Idle
    /\ \E algorithm \in HOTPAlgorithm, rng \in RngResults :
        LET r == HOTPSecret_new_htop(algorithm, rng)
        IN /\ Call("new_htop", [algorithm |-> algorithm, rng |-> rng], r)
           /\ secret' = IF r.kind = "ok" THEN Some(r.value) ELSE secret
    /\ UNCHANGED <<overflow_checks, oracle, totp>>

Call_from_base32 ==
    /\ Idle
    /\ \E data \in Texts, algorithm \in HOTPAlgorithm :
        LET r == HOTPSecret_from_base32(data, algorithm)
        IN /\ Call("from_base32", [data |-> data, algorithm |-> algorithm], r)
           /\ secret' = IF r.kind = "ok" THEN Some(r.value) ELSE secret
    /\ UNCHANGED <<overflow_checks, oracle, totp>>

Call_from_bin ==
    /\ Idle
    /\ \E data \in BinKeys, algorithm \in HOTPAlgorithm :
        LET r == HOTPSecret_from_bin(data, algorithm)
        IN /\ Call("from_bin", [data |-> data, algorithm |-> algorithm], r)
           /\ secret' = Some(r.value)
    /\ UNCHANGED <<overflow_checks, oracle, totp>>

Call_get_secret_base32 ==
    /\ Idle
    /\ secret # None
    /\ Call("get_secret_base32", [self |-> secret[1]], HOTPSecret_get_secret_base32(secret[1]))
    /\ UNCHANGED <<overflow_checks, oracle, secret, totp>>

Call_get_otp ==
    /\ Idle
    /\ secret # None
    /\ \E counter \in CounterBuffers, digits \in Digits :
        Call("get_otp", [self |-> secret[1], counter |-> counter, digits |-> digits],
             HOTPSecret_get_otp(secret[1], counter, digits, overflow_checks, oracle))
    /\ UNCHANGED <<overflow_checks, oracle, secret, totp>>

Call_get_hotp_value ==
    /\ Idle
    /\ \E data \in Digests :
        Call("get_hotp_value", [data |-> data], HOTPSecret_get_hotp_value(data))
    /\ UNCHANGED <<overflow_checks, oracle, secret, totp>>

\* new_totp takes the secret by value: the caller no longer holds it.
Call_new_totp ==
    /\ Idle
    /\ secret # None
    /\ \E time_step \in TimeSteps, start_time \in StartTimes :
        LET r == TOTP_new_totp(secret[1], time_step, start_time)
        IN /\ Call("new_totp", [time_step |-> time_step, start_time |-> start_time], r)
           /\ totp' = IF r.kind = "ok" THEN Some(r.value) ELSE totp
    /\ secret' = None
    /\ UNCHANGED <<overflow_checks, oracle>>

Call_get_time ==
    /\ Idle
    /\ totp # None
    /\ \E now \in Nows :
        Call("get_time", [self |-> totp[1], now |-> now],
             TOTP_get_time(totp[1], now, overflow_checks))
    /\ UNCHANGED <<overflow_checks, oracle, secret, totp>>

Call_totp_get_otp ==
    /\ Idle
    /\ totp # None
    /\ \E now \in Nows, digits \in TotpDigits, offset \in Offsets :
        Call("totp_get_otp",
             [self |-> totp[1], now |-> now, digits |-> digits, offset |-> offset],
             TOTP_get_otp(totp[1], now, digits, offset, overflow_checks, oracle))
    /\ UNCHANGED <<overflow_checks, oracle, secret, totp>>

Call_num_to_buffer ==
    /\ Idle
    /\ \E num \in Nums :
        Call("num_to_buffer", [num |-> num], TOTP_num_to_buffer(num))
    /\ UNCHANGED <<overflow_checks, oracle, secret, totp>>

Call_get_byte_at ==
    /\ Idle
    /\ \E num \in Nums, idx \in 0..7 :
        Call("get_byte_at", [num |-> num, idx |-> idx], TOTP_get_byte_at(num, idx))
    /\ UNCHANGED <<overflow_checks, oracle, secret, totp>>

Return ==
    /\ ~Idle
    /\ op' = "idle" /\ arg' = <<>> /\ res' = <<>>
    /\ UNCHANGED <<overflow_checks, oracle, secret, totp>>

-----------------------------------------------------------------------------
(* Specifications *)

Builds ==
    /\ overflow_checks \in BOOLEAN
    /\ oracle \in 0..MaxOracle
    /\ op = "idle" /\ arg = <<>> /\ res = <<>>

\* The program before any construction.
Init == Builds /\ secret = None /\ totp = None

Next ==
    \/ Call_new_htop
    \/ Call_from_base32
    \/ Call_from_bin
    \/ Call_get_secret_base32
    \/ Call_get_otp
    \/ Call_get_hotp_value
    \/ Call_new_totp
    \/ Call_get_time
    \/ Call_totp_get_otp
    \/ Call_num_to_buffer
    \/ Call_get_byte_at
    \/ Return

Spec == Init /\ [][Next]_vars

\* HOTPSecret alone: its constructors, its export and get_otp.
NextSecret ==
    \/ Call_new_htop
    \/ Call_from_base32
    \/ Call_from_bin
    \/ Call_get_secret_base32
    \/ Call_get_otp
    \/ Return

SpecSecret == Init /\ [][NextSecret]_vars

\* The pure function get_hotp_value on the digests.
NextTrunc == Call_get_hotp_value \/ Return

SpecTrunc == Init /\ [][NextTrunc]_vars

\* TOTP over a secret made by from_bin.
TotpSecrets ==
    {HOTPSecret_from_bin(RfcKey(20), "HMACSHA1").value,
     HOTPSecret_from_bin(RfcKey(64), "HMACSHA512").value}

InitTotp == Builds /\ secret \in {Some(s) : s \in TotpSecrets} /\ totp = None

NextTotp ==
    \/ Call_new_totp
    \/ Call_get_time
    \/ Call_totp_get_otp
    \/ Return

SpecTotp == InitTotp /\ [][NextTotp]_vars

\* The pure functions num_to_buffer and get_byte_at on the numbers.
NextCounter == Call_num_to_buffer \/ Call_get_byte_at \/ Return

SpecCounter == Init /\ [][NextCounter]_vars

-----------------------------------------------------------------------------
(* What the claims are stated with: arithmetic on exact values *)

\* The 31-bit value RFC 4226 5.3 takes from a digest d.
RefTruncate(d) ==
    LET offset == d[Len(d)] % 16
    IN (d[offset + 1] % 128) * 16777216 + d[offset + 2] * 65536
       + d[offset + 3] * 256 + d[offset + 4]

\* v mod 10^digits for 0 <= v < 2^31: 10^digits exceeds v from 10 digits on.
RefMod10(v, digits) == IF digits <= 9 THEN v % (10 ^ digits) ELSE v

\* |offset| of an i32, as a u64
RefMagnitude(offset) ==
    IF offset = I32Min THEN <<0, 0, 0, 128, 0, 0, 0, 0>>
    ELSE U64(IF offset < 0 THEN -offset ELSE offset)

\* The 8 bytes of n < 2^64, most significant first.
RefBigEndian(n) == [i \in 1..8 |-> n[9 - i]]

RECURSIVE RefHorner(_, _)
\* sum of buf[i] * 256^(Len(buf) - i), from the accumulator acc, on 9 octets
RefHorner(buf, acc) ==
    IF buf = <<>> THEN acc
    ELSE LET next == Trunc(NatAdd(MulDigitFrom(acc, 256, 1, 0), <<Head(buf)>>, 9), 9)
         IN Then(next, RefHorner(Tail(buf), next))

\* q = floor(n / d) for 0 < d < 2^22: q * d <= n < q * d + d
RefIsFloor(q, n, d) ==
    LET qd == MulDigitFrom(q, ToInt(d), 1, 0)
    IN Then(qd, ~NatLess(n, qd) /\ NatLess(n, NatAdd(qd, d, 10)))

-----------------------------------------------------------------------------
(* C1 *)

\* C1, as claimed: for every secret, counter and digits >= 1, get_otp completes
\* and returns bin_code mod 10^digits (bin_code the truncated HMAC), a value in
\* [0, 10^digits).  The code computes 10^digits in u32: from 10 digits on a
\* checked build panics and an unchecked build reduces by 10^digits mod 2^32.
C1_Claim ==
    op = "get_otp" /\ arg.digits >= 1 =>
        LET block == Hmac(HOTPSecret_get_algorithm(arg.self.algorithm),
                          arg.self.secret, arg.counter, oracle)
            bin_code == RefTruncate(block)
        IN /\ res.kind = "ok"
           /\ res.value = RefMod10(bin_code, arg.digits)
           /\ res.value >= 0
           /\ (arg.digits <= 9 => res.value < 10 ^ arg.digits)

-----------------------------------------------------------------------------
(* C2 *)

\* C2: for every key, algorithm and counter, get_otp with 6 digits returns a
\* value in [0, 1000000) and with 8 digits a value in [0, 100000000).
C2_DigitsRange ==
    op = "get_otp" /\ arg.digits \in {6, 8} =>
        /\ res.kind = "ok"
        /\ res.value >= 0
        /\ (arg.digits = 6 => res.value < 1000000)
        /\ (arg.digits = 8 => res.value < 100000000)

C2_Witness ==
    /\ op = "get_otp"
    /\ arg.digits = 8
    /\ arg.self.algorithm = "HMACSHA512"
    /\ res.kind = "ok"
    /\ res.value >= 10000000

-----------------------------------------------------------------------------
(* C3 *)

\* C3: for a digest d of 20, 32 or 64 bytes and offset = d[last] & 0x0F, the
\* indices offset..offset+3 lie inside d and get_hotp_value returns
\* (d[offset] & 0x7F)*2^24 + d[offset+1]*2^16 + d[offset+2]*2^8 + d[offset+3],
\* below 2^31; the digest of test_dynamic_trunc gives 0x50EF7F19.
C3_DynamicTruncation ==
    op = "get_hotp_value" /\ Len(arg.data) \in {20, 32, 64} =>
        LET d == arg.data
            offset == d[Len(d)] % 16
        IN /\ offset + 3 <= Len(d) - 1
           /\ res.kind = "ok"
           /\ res.value = (d[offset + 1] % 128) * 16777216 + d[offset + 2] * 65536
                          + d[offset + 3] * 256 + d[offset + 4]
           /\ res.value >= 0 /\ res.value <= 2147483647
           /\ (d = TestDigest => res.value = 1357872921)

C3_Witness ==
    /\ op = "get_hotp_value"
    /\ arg.data = TestDigest
    /\ res.kind = "ok"
    /\ res.value = 1357872921

-----------------------------------------------------------------------------
(* C4 *)

\* C4, as claimed: whenever the step index s and the offset have s + offset >= 0
\* (and below 2^64, so that it has an 8-byte encoding), TOTP::get_otp returns what
\* HOTPSecret::get_otp returns on the owned secret for the big-endian bytes of
\* s + offset and the same digits.  The code adds in i64: a checked build panics
\* when s + offset leaves the i64 range (s = 2^63 - 1, offset = 1).
C4_Claim ==
    op = "totp_get_otp" /\ res.time # None =>
        LET s == res.time[1]
            m == RefMagnitude(arg.offset)
            exact == IF arg.offset >= 0 THEN NatAdd(s, m, 8)
                     ELSE NatSub(s, m, 8) \o <<0>>
            expected == HOTPSecret_get_otp(arg.self.secret, RefBigEndian(exact),
                                           arg.digits, overflow_checks, oracle)
        IN (arg.offset >= 0 \/ ~NatLess(s, m)) /\ exact[9] = 0 =>
               res.kind = expected.kind /\ res.value = expected.value

-----------------------------------------------------------------------------
(* C5 *)

\* C5: new_totp with time_step = 0 fails (the assertion panics) and returns no
\* TOTP; every TOTP it returns, and so every TOTP the caller holds, has
\* time_step > 0, and the division of get_time never divides by zero.
C5_TimeStepPositive ==
    /\ (op = "new_totp" /\ IsZero(arg.time_step) => res.kind = "panic")
    /\ (op = "new_totp" /\ res.kind = "ok" => ~IsZero(res.value.time_step))
    /\ (totp # None => ~IsZero(totp[1].time_step))
    /\ (op \in {"get_time", "totp_get_otp"} => res.at # "attempt to divide by zero")

C5_Witness ==
    /\ op = "new_totp"
    /\ IsZero(arg.time_step)
    /\ res.kind = "panic"
    /\ totp = None

-----------------------------------------------------------------------------
(* C6 *)

\* C6, as claimed: from_base32 of a text with a character outside the alphabet
\* returns a DecodeError to the caller as an error value (it does not panic)
\* and produces no Secret; of a valid text it stores the decoded bytes whatever
\* their length.  The code unwraps the decoder's None: it panics.
C6_Claim ==
    op = "from_base32" =>
        IF \E i \in 1..Len(arg.data) : ~InAlphabet(arg.data[i])
        THEN res.kind # "panic" /\ res.kind # "ok"
        ELSE /\ res.kind = "ok"
             /\ Len(res.value.secret) = (Len(arg.data) * 5) \div 8
             /\ base32_encode(res.value.secret) = arg.data
             /\ secret = Some(res.value)

-----------------------------------------------------------------------------
(* C7 *)

\* C7: new_htop(algorithm) gives a Secret whose key has output_len(algorithm)
\* bytes (20, 32, 64 for SHA1, SHA256, SHA512) and whose tag is the algorithm
\* asked for, so that the digest get_otp computes with it has the key's length.
C7_KeyLength ==
    op = "new_htop" /\ res.kind = "ok" =>
        /\ Len(res.value.secret) =
               (CASE arg.algorithm = "HMACSHA1" -> 20
                  [] arg.algorithm = "HMACSHA256" -> 32
                  [] arg.algorithm = "HMACSHA512" -> 64)
        /\ \A i \in 1..Len(res.value.secret) : res.value.secret[i] \in 0..255
        /\ res.value.algorithm = arg.algorithm
        /\ secret = Some(res.value)
        /\ Len(Hmac(HOTPSecret_get_algorithm(res.value.algorithm), res.value.secret,
                    <<0, 0, 0, 0, 0, 0, 0, 1>>, oracle)) = Len(res.value.secret)

C7_Witness ==
    /\ op = "new_htop"
    /\ arg.algorithm = "HMACSHA512"
    /\ res.kind = "ok"
    /\ Len(res.value.secret) = 64
    /\ secret = Some(res.value)

-----------------------------------------------------------------------------
(* C8 *)

\* C8, as claimed: for every reading now, every start_time and every
\* time_step > 0 of 64 bits, get_time returns floor((now + start_time) / time_step),
\* and with time_step = 30, start_time = 0 the seconds of test_time_to_counter give
\* the counters 1, 0x023523EC, 0x023523ED, 0x0273EF07, 0x03F940AA, 0x27BC86AA.
\* The code adds in u64: when now + start_time reaches 2^64 a checked build
\* panics and an unchecked build divides the wrapped sum.
C8_Claim ==
    op = "get_time" /\ arg.now # None /\ ~IsZero(arg.self.time_step) =>
        LET now == arg.now[1]
            exact == NatAdd(now, arg.self.start_time, 8)
        IN /\ res.kind = "ok"
           /\ RefIsFloor(res.value, exact, arg.self.time_step)
           /\ (arg.self.time_step = U64(30) /\ arg.self.start_time = U64(0) =>
                  /\ (now = U64(59) => res.value = U64(1))
                  /\ (now = U64(1111111109) => res.value = U64(37037036))
                  /\ (now = U64(1111111111) => res.value = U64(37037037))
                  /\ (now = U64(1234567890) => res.value = U64(41152263))
                  /\ (now = U64(2000000000) => res.value = U64(66666666))
                  /\ (now = N20000000000 => res.value = U64(666666666)))

-----------------------------------------------------------------------------
(* C9 *)

\* Different nums give different buffers.
C9_Injective ==
    \A a \in Nums, b \in Nums : a # b => TOTP_num_to_buffer(a) # TOTP_num_to_buffer(b)

\* C9: num_to_buffer gives 8 bytes, most significant first: byte i is
\* floor(num / 256^(7-i)) mod 256, the sum of byte[i] * 256^(7-i) is num, and
\* different nums give different buffers.
C9_BigEndian ==
    /\ (op = "num_to_buffer" =>
           /\ Len(res) = 8
           /\ \A i \in 0..7 : res[i + 1] \in 0..255
           \* floor(num / 256^(7-i)) mod 256 is octet 7-i of num
           /\ \A i \in 0..7 : res[i + 1] = arg.num[(7 - i) + 1]
           \* the same on TLC's integers, for a num below 2^31
           /\ (FitsInt(arg.num) =>
                  /\ \A i \in 0..3 : res[i + 1] = 0
                  /\ \A i \in 4..7 : res[i + 1] = (ToInt(arg.num) \div (256 ^ (7 - i))) % 256)
           /\ NatEq(RefHorner(res, Zeros(9)), arg.num))
    /\ (op = "get_byte_at" =>
           /\ res = arg.num[arg.idx + 1]
           /\ (FitsInt(arg.num) /\ arg.idx <= 3 =>
                  res = (ToInt(arg.num) \div (256 ^ arg.idx)) % 256))
    /\ C9_Injective

C9_Witness ==
    /\ op = "num_to_buffer"
    /\ arg.num = <<33, 67, 101, 135, 169, 203, 237, 15>>
    /\ res = <<15, 237, 203, 169, 135, 101, 67, 33>>

-----------------------------------------------------------------------------
(* C10 *)

\* C10: when the step index s is below 2^63 and offset is negative with
\* s + offset < 0, the sum of TOTP::get_otp neither fails nor clamps to zero: the
\* counter buffer is the big-endian bytes of 2^64 + s + offset and the call
\* returns what HOTPSecret::get_otp returns for that buffer; offset -1 at step
\* index 0 uses the bytes FF FF FF FF FF FF FF FF.
C10_Wraparound ==
    op = "totp_get_otp" /\ res.time # None =>
        LET s == res.time[1]
            m == RefMagnitude(arg.offset)
        IN ~Negative64(s) /\ arg.offset < 0 /\ NatLess(s, m) =>
               LET wrapped == NatSub(<<0, 0, 0, 0, 0, 0, 0, 0, 1>>, NatSub(m, s, 9), 9)
                   expected == HOTPSecret_get_otp(arg.self.secret, RefBigEndian(wrapped),
                                                  arg.digits, overflow_checks, oracle)
               IN /\ res.in # "counter"
                  /\ wrapped[9] = 0
                  /\ res.buf = Some(RefBigEndian(wrapped))
                  /\ res.buf # Some(Zeros(8))
                  /\ res.kind = expected.kind /\ res.value = expected.value
                  /\ (arg.digits <= 9 => res.kind = "ok")
                  /\ (IsZero(s) /\ arg.offset = -1 =>
                         res.buf = Some(<<255, 255, 255, 255, 255, 255, 255, 255>>))

C10_Witness ==
    /\ op = "totp_get_otp"
    /\ res.time = Some(U64(0))
    /\ arg.offset = -1
    /\ res.buf = Some(<<255, 255, 255, 255, 255, 255, 255, 255>>)
    /\ res.kind = "ok"

====
